---- MODULE Spec2Model ----
(***************************************************************************)
(* Model of the streaming response protocol adapter GeminiLiveService      *)
(* (src/unnamed/part_001): the socket lifecycle with its reconnect policy,  *)
(* the turn buffer (accumulatedResponse), the inbound frame handling, the   *)
(* report extractor (parseDefectReport) and the three subscriber           *)
(* registries with their fan-out.                                          *)
(*                                                                         *)
(* The browser is the environment: it owns each WebSocket's readyState,     *)
(* fires open / error / close / message events as separate tasks, runs the *)
(* reconnect timers, and resolves Blob.text() asynchronously.  The         *)
(* subscribers are callbacks of the caller; the ones modelled return        *)
(* normally, and some of them register or unregister while they run.        *)
(***************************************************************************)
EXTENDS Integers, Sequences, FiniteSets, TLC

\* ------------------------------------------------------------------ bounds
\* Socket objects that can be alive (not yet garbage) at the same time.
MaxSockets == 2
\* Requests (sendImageWithPrompt / sendTextPrompt) issued in one behaviour.
MaxReq == 2
\* Characters the turn buffer may hold before the server stops streaming.
MaxBuf == 3
\* Blob frames whose text() promise is pending at the same time.
MaxDecoding == 1
\* Subscriptions a registry may hold.
MaxSubs == 2
\* Pieces of text (fences, objects, braces, prose) a model reply is made of.
MaxPieces == 3
\* Unregister capabilities the caller holds on to after it has called them.
MaxHeld == 1
\* Sections with a report in the inspections that are exported.
MaxScored == 2

\* ------------------------------------------------------- program constants
maxReconnectAttempts == 3
baseInterval == 2000

\* PHONE_SECTIONS.length, and the ceiling of DeviceInspector's history.
NumSections == 6
historyLimit == 10

\* The condition grade the prompt asks for is on a 1-10 scale.
MaxScore == 10

Sockets == 1..MaxSockets
NoSocket == 0

VARIABLES
  ws,                  \* this.ws: the current socket, NoSocket for null
  readyState,          \* readyState of every socket object
  reconnectAttempts,   \* this.reconnectAttempts
  currentStatus,       \* this.currentStatus
  accumulatedResponse, \* this.accumulatedResponse, a sequence of characters
  timers,              \* pending setTimeout(() => this.connect(), d): delays, oldest first
  decoding,            \* Blob frames whose event.data.text() is still pending, oldest first
  srvQueue,            \* per socket: requests written to it that the service has not completed
  lastReq,             \* number of the most recently issued request (0: none)
  received,            \* fragments appended to the buffer since its last reset, with their origin
  explicit,            \* per socket: closed by disconnect()
  closesSinceOpen,     \* close events since the last open event (counted up to the ceiling + 1)
  unexpectedRun,       \* unexpected closures in a row: none since the last open event or
                       \* disconnect() call (counted up to the ceiling + 1)
  userClosed,          \* disconnect() was called and the caller has not called connect() since
  wsUrlOk,             \* new WebSocket(wsUrl) returns a socket (FALSE: it throws)
  statusHandlers,      \* this.statusHandlers, in registration order
  messageHandlers,     \* this.messageHandlers
  defectHandlers,      \* this.defectHandlers
  released,            \* unregister capabilities the caller has called and still holds
  pendingReportRef,    \* MultiSectionInspector: pendingReportRef.current, the capture
                       \* that awaits its report (0: null)
  captures,            \* its captureAndAnalyzeSection calls so far, each with the section
                       \* index it closed over, its request and its outcome
  deadlines,           \* the captures whose 30 s timer is pending, oldest first
  currentSectionIndex, \* its state currentSectionIndex
  isAnalyzing,         \* its state isAnalyzing
  sections,            \* its state sections: per section, captured and the report stored
  inspectionComplete,  \* its state inspectionComplete
  currentReport,       \* DeviceInspector: its state currentReport (<<>>: null)
  inspectionHistory,   \* its state inspectionHistory
  cli,                 \* device-info route: how each command of the CLI ends
  response,            \* the body of the response of its last GET (<<>>: none yet)
  op,                  \* the handler that ran last, with what it saw when it started
  fx                   \* what the handler that ran last did, in order

vars == <<ws, readyState, reconnectAttempts, currentStatus, accumulatedResponse,
          timers, decoding, srvQueue, lastReq, received, explicit, closesSinceOpen,
          unexpectedRun, userClosed, wsUrlOk, statusHandlers, messageHandlers,
          defectHandlers, released, pendingReportRef, captures, deadlines,
          currentSectionIndex, isAnalyzing, sections, inspectionComplete, currentReport,
          inspectionHistory, cli, response, op, fx>>

\* The state of the components that use the service, and of the route.
inspector == <<pendingReportRef, captures, deadlines, currentSectionIndex, isAnalyzing,
               sections, inspectionComplete>>
panel == <<currentReport, inspectionHistory>>
device == <<cli, response>>
components == <<inspector, panel, device>>

\* One effect of a handler: t the kind, s the socket (0: none), n a number,
\* v a label, x a text.
E(t, s, n, v, x) == [t |-> t, s |-> s, n |-> n, v |-> v, x |-> x]

\* The record of the handler that ran: its name, the socket it ran for (0: none),
\* a number n and a sequence q it observed when it started.
Op(name, s, n, q) == [name |-> name, s |-> s, n |-> n, q |-> q]

\* ----------------------------------------------------------------- texts
\* A text is a sequence of characters; a part of a content frame is its text,
\* <<>> for a part with no text (or an empty one).
A == <<"a">>
B == <<"b">>
NoText == <<>>

PartSeqs == {<<>>, <<A>>, <<NoText, B>>, <<B, A>>}

ContentFrames ==
  {[kind |-> "content", parts |-> p, turnComplete |-> c] : p \in PartSeqs, c \in BOOLEAN}

OtherFrames ==
  {[kind |-> k, parts |-> <<>>, turnComplete |-> FALSE] :
     k \in {"setupComplete", "error", "malformed", "other"}}

\* The characters a model reply is made of here: the backtick ("tick"), the language
\* hint "json" (taken as one character), white space, the braces, the comma,
\* a character of prose, and the member lists of a JSON object, each taken as
\* one character: the members of a well-formed report without a timestamp,
\* with a timestamp, with an empty timestamp, with a score and a condition
\* outside their ranges, the members of some other object, and the members of
\* the report the prompt asks for when no device is visible.
MemberAtoms == {"report", "report+ts", "report+ts0", "report11", "note", "sentinel"}

Fence == <<"tick", "tick", "tick">>
FenceJson == <<"tick", "tick", "tick", "json", " ">>
SpaceFence == <<" ", "tick", "tick", "tick">>
Obj(m) == <<"{", m, "}">>
TrailingCommaObj == <<"{", "report+ts", ",", "}">>

Pieces ==
  {FenceJson, SpaceFence, <<"{">>, <<"}">>, <<"x">>, TrailingCommaObj}
    \cup {Obj(m) : m \in MemberAtoms \ {"sentinel"}}

\* The replies of up to n pieces, each piece one text part of the frame.
RECURSIVE Replies(_)
Replies(n) ==
  IF n = 0 THEN {<<>>}
  ELSE LET shorter == Replies(n - 1)
       IN  shorter \cup {Append(r, p) : r \in {q \in shorter : Len(q) = n - 1}, p \in Pieces}

\* The frames that carry a whole reply and its turn-complete flag.
ReplyFrames ==
  {[kind |-> "content", parts |-> r, turnComplete |-> TRUE] : r \in Replies(MaxPieces)}

\* A first fragment of a reply.
Preamble == [kind |-> "content", parts |-> <<A>>, turnComplete |-> FALSE]

\* The frames of a short session: a fragment of prose, and a whole reply that
\* is a report in a fenced block, split in two parts.
ShortFrames ==
  {Preamble,
   [kind |-> "content", parts |-> <<FenceJson, Obj("report") \o SpaceFence>>,
    turnComplete |-> TRUE],
   [kind |-> "error", parts |-> <<>>, turnComplete |-> FALSE]}

RECURSIVE Flatten(_)
Flatten(ss) == IF ss = <<>> THEN <<>> ELSE Head(ss) \o Flatten(Tail(ss))

FrameLen(f) == Len(Flatten(f.parts))

RECURSIVE SumLen(_)
SumLen(ds) == IF ds = <<>> THEN 0 ELSE FrameLen(Head(ds).frame) + SumLen(Tail(ds))

\* ------------------------------------------------------------ subscribers
\* The callbacks a caller registers: f returns at once; once calls its own
\* unregister capability when it is invoked; adder registers f with the
\* registry it is invoked from (when the registry has room).
Callbacks == {"f", "once", "adder"}

\* A callback that throws when it is invoked, and the callbacks of a caller
\* that registers such a one.
Thrower == "thrower"
CallbacksThatMayThrow == {"f", Thrower}

\* The unregister capability: handlers.filter((h) => h !== handler).
Unregister_First(hs, cb) ==
  LET at == {i \in 1..Len(hs) : hs[i] = cb}
      first == CHOOSE i \in at : \A j \in at : i <= j
  IN  IF at = {} THEN hs ELSE SubSeq(hs, 1, first - 1) \o SubSeq(hs, first + 1, Len(hs))
Unregister(hs, cb) == SelectSeq(hs, LAMBDA h : h # cb)

\* Array.prototype.forEach over the array arr, from index k on; len is the
\* length of arr when the pass began, cur is the registry field, which is the
\* array arr itself (same) until an unregister call has replaced it by a
\* filtered copy.  The mark ("forEach") and the calls made are collected in acc.
\* live: a loop that reads the length of arr again before every step.
\* A callback that throws ends the pass: forEach lets the exception through
\* (thrown).
RECURSIVE Pass(_, _, _, _, _, _, _, _)
Pass(k, live, len, arr, cur, same, x, acc) ==
  IF k > (IF live THEN Len(arr) ELSE len) THEN [fx |-> acc, hs |-> cur, thrown |-> FALSE]
  ELSE LET cb == arr[k]
           called == Append(acc, E("call", NoSocket, k, cb, x))
           pushed == IF Len(cur) < MaxSubs THEN Append(cur, "f") ELSE cur
       IN  CASE cb = Thrower ->
                  [fx |-> Append(called, E("throw", NoSocket, k, cb, <<>>)), hs |-> cur,
                   thrown |-> TRUE]
             [] cb = "once" ->
                  Pass(k + 1, live, len, arr, Unregister(cur, cb), FALSE, x, called)
             [] cb = "adder" ->
                  Pass(k + 1, live, len, IF same THEN pushed ELSE arr, pushed, same, x, called)
             [] OTHER ->
                  Pass(k + 1, live, len, arr, cur, same, x, called)

\* A loop over the registry field itself, by index: it sees every change the
\* callbacks make while it runs.
RECURSIVE PassCurrent(_, _, _, _)
PassCurrent(k, cur, x, acc) ==
  IF k > Len(cur) THEN [fx |-> acc, hs |-> cur, thrown |-> FALSE]
  ELSE LET cb == cur[k]
           called == Append(acc, E("call", NoSocket, k, cb, x))
       IN  CASE cb = "once" -> PassCurrent(k + 1, Unregister(cur, cb), x, called)
             [] cb = "adder" ->
                  PassCurrent(k + 1, IF Len(cur) < MaxSubs THEN Append(cur, "f") ELSE cur,
                              x, called)
             [] OTHER -> PassCurrent(k + 1, cur, x, called)

\* handlers.forEach((handler) => handler(x)) on the registry hs of the given
\* kind: what it does, and the registry afterwards.
forEach_Current(hs, kind, x) ==
  PassCurrent(1, hs, x, <<E("forEach", NoSocket, Len(hs), kind, hs)>>)
forEach_Live(hs, kind, x) ==
  Pass(1, TRUE, Len(hs), hs, hs, TRUE, x, <<E("forEach", NoSocket, Len(hs), kind, hs)>>)
forEach(hs, kind, x) ==
  Pass(1, FALSE, Len(hs), hs, hs, TRUE, x, <<E("forEach", NoSocket, Len(hs), kind, hs)>>)

\* ------------------------------------------------------- the code's pieces
\* setStatus(status) with the status registry hs: the assignment (made by the
\* actions) and the broadcast.
setStatus(status, hs) ==
  LET pass == forEach(hs, "status", <<status>>)
  IN  [fx |-> <<E("status", NoSocket, 0, status, <<>>)>> \o pass.fx, hs |-> pass.hs]

\* getStatus().
getStatus == currentStatus

\* connect(): the early return.
ConnectIsNoop_Never(w, rs) == FALSE
ConnectIsNoop(w, rs) == w # NoSocket /\ rs[w] = "OPEN"

\* The guard of sendSetupMessage, sendVideoFrame, sendImageWithPrompt, sendTextPrompt.
CanSend_Present(w, rs) == w # NoSocket
CanSend(w, rs) == w # NoSocket /\ rs[w] = "OPEN"

\* ws.onopen: the value given to reconnectAttempts.
OnOpenAttempts_Keep(n) == n
OnOpenAttempts(n) == 0

\* ws.onclose: the reconnect guard, the counter and the delay.
CanReconnect(n) == n < maxReconnectAttempts
NextAttempts(n) == IF CanReconnect(n) THEN n + 1 ELSE n
ReconnectDelay_Flat(n) == baseInterval
ReconnectDelay(n) == baseInterval * n

\* sendSetupMessage, called from ws.onopen: written to this.ws when that is open.
sendSetupMessage(w, rs) ==
  IF CanSend(w, rs) THEN <<E("send", w, 0, "setup", <<>>)>> ELSE <<>>

\* sendImageWithPrompt: the buffer after "Clear any previous accumulated response".
\* sendTextPrompt: the buffer after the call (it has no such statement).
ImagePromptBuffer(buf) == <<>>
TextPromptBuffer(buf) == buf

\* disconnect(): the buffer after the call (disconnect does not touch it).
DisconnectBuffer(buf) == buf

\* handleMessage: the loop "for (const part of modelTurn.parts) if (part.text) ...".
RECURSIVE AppendParts_Prepend(_, _)
AppendParts_Prepend(buf, parts) ==
  IF parts = <<>> THEN buf
  ELSE AppendParts_Prepend(IF Head(parts) # NoText THEN Head(parts) \o buf ELSE buf,
                           Tail(parts))

RECURSIVE AppendParts(_, _)
AppendParts(buf, parts) ==
  IF parts = <<>> THEN buf
  ELSE AppendParts(IF Head(parts) # NoText THEN buf \o Head(parts) ELSE buf, Tail(parts))

\* ... and its forwarding of each such part to the message handlers hs. When
\* a handler throws, the loop ends there: upto is the number of parts the loop
\* got to, the one it was forwarding included.
ForwardParts_First(parts, hs) ==
  IF parts = <<>> \/ Head(parts) = NoText
  THEN [fx |-> <<>>, hs |-> hs, thrown |-> FALSE, upto |-> Len(parts)]
  ELSE LET pass == forEach(hs, "message", Head(parts))
       IN  [fx |-> <<E("text", NoSocket, 0, "chunk", Head(parts))>> \o pass.fx, hs |-> pass.hs,
            thrown |-> pass.thrown, upto |-> IF pass.thrown THEN 1 ELSE Len(parts)]
RECURSIVE ForwardParts(_, _)
ForwardParts(parts, hs) ==
  IF parts = <<>> THEN [fx |-> <<>>, hs |-> hs, thrown |-> FALSE, upto |-> 0]
  ELSE IF Head(parts) = NoText
  THEN LET rest == ForwardParts(Tail(parts), hs)
       IN  [rest EXCEPT !.upto = @ + 1]
  ELSE LET pass == forEach(hs, "message", Head(parts))
           rest == ForwardParts(Tail(parts), pass.hs)
           text == <<E("text", NoSocket, 0, "chunk", Head(parts))>>
       IN  IF pass.thrown
           THEN [fx |-> text \o pass.fx, hs |-> pass.hs, thrown |-> TRUE, upto |-> 1]
           ELSE [fx |-> text \o pass.fx \o rest.fx, hs |-> rest.hs,
                 thrown |-> rest.thrown, upto |-> rest.upto + 1]

\* handleMessage: "if (message.error)"; an envelope that does not decode
\* throws before, into the catch block, which logs.
IsApiError_OrUndecodable(f) == f.kind \in {"error", "malformed"}
IsApiError(f) == f.kind = "error"

\* handleMessage on an error marker: the message given to the message handlers.
ErrorText_NoPrefix == <<"message">>
ErrorText == <<"Error: ", "message">>

\* The origin of each part appended (what the code does not keep).
RECURSIVE Origins(_, _)
Origins(parts, turn) ==
  IF parts = <<>> THEN <<>>
  ELSE (IF Head(parts) # NoText
        THEN <<[x |-> Head(parts), turn |-> turn, stale |-> FALSE]>> ELSE <<>>)
       \o Origins(Tail(parts), turn)

\* handleMessage on a turn-complete flag: the string handed to parseDefectReport
\* and the buffer afterwards.
ParsedText(buf) == buf
AfterTurnComplete_Keep(buf) == buf
AfterTurnComplete(buf) == <<>>

\* -------------------------------------------------------- parseDefectReport
Least(S) == CHOOSE m \in S : \A n \in S : m <= n
Greatest(S) == CHOOSE m \in S : \A n \in S : m >= n

\* text.match(/```(?:json)?\s*([\s\S]*?)```/): the three backticks at i ...
IsFenceAt(t, i) == i + 2 <= Len(t) /\ SubSeq(t, i, i + 2) = Fence

RECURSIVE SkipSpace(_, _)
SkipSpace(t, p) == IF p <= Len(t) /\ t[p] = " " THEN SkipSpace(t, p + 1) ELSE p

\* ... the start of the group after "(?:json)?\s*" ...
GroupStart(t, i) ==
  SkipSpace(t, IF i + 3 <= Len(t) /\ t[i + 3] = "json" THEN i + 4 ELSE i + 3)

\* ... and the closing backticks the lazy group can stop at.
Closings(t, p) == {j \in p..Len(t) : IsFenceAt(t, j)}

\* The match: the leftmost i that has a closing, and the group up to the first one.
codeBlockMatch(t) ==
  LET starts == {i \in 1..Len(t) : IsFenceAt(t, i) /\ Closings(t, GroupStart(t, i)) # {}}
  IN  IF starts = {} THEN [found |-> FALSE, group |-> <<>>]
      ELSE LET p == GroupStart(t, Least(starts))
           IN  [found |-> TRUE, group |-> SubSeq(t, p, Least(Closings(t, p)) - 1)]

\* String.prototype.trim.
trim(t) ==
  LET inked == {i \in 1..Len(t) : t[i] # " "}
  IN  IF inked = {} THEN <<>> ELSE SubSeq(t, Least(inked), Greatest(inked))

\* cleanText after "Handle ```json ... ``` wrapper".
cleanText_NoFence(text) == text
cleanText(text) ==
  LET m == codeBlockMatch(text) IN IF m.found THEN trim(m.group) ELSE text

\* cleanText.match(/\{[\s\S]*\}/): jsonMatch[0], <<>> when there is no match.
jsonMatch(clean) ==
  LET opens == {i \in 1..Len(clean) : clean[i] = "{"}
      closes == {i \in 1..Len(clean) : clean[i] = "}"}
  IN  IF opens = {} \/ closes = {} \/ Least(opens) > Greatest(closes) THEN <<>>
      ELSE SubSeq(clean, Least(opens), Greatest(closes))

\* JSON.parse: the members between the braces of an object, white space
\* removed: member lists separated by commas.
Members_TrailingComma(w) ==
  \A i \in 1..Len(w) : IF i % 2 = 1 THEN w[i] \in MemberAtoms ELSE w[i] = ","
Members(w) ==
  /\ Len(w) % 2 = 1
  /\ \A i \in 1..Len(w) : IF i % 2 = 1 THEN w[i] \in MemberAtoms ELSE w[i] = ","

\* The object a member list decodes to.
WellFormed ==
  [device_type |-> "iPhone 12", condition_score |-> 8, overall_condition |-> "Good",
   defects |-> <<>>, recommendations |-> <<>>]

DecodedTimestamp == "2024-05-01T10:00:00.000Z"

Fields(m) ==
  CASE m = "report" -> WellFormed
    [] m = "report+ts" -> [timestamp |-> DecodedTimestamp] @@ WellFormed
    [] m = "report+ts0" -> [timestamp |-> ""] @@ WellFormed
    [] m = "report11" ->
         [timestamp |-> DecodedTimestamp]
           @@ [WellFormed EXCEPT !.condition_score = 11, !.overall_condition = "Mint"]
    [] m = "note" -> [note |-> "no device"]
    [] m = "sentinel" ->
         [device_type |-> "Not Detected", condition_score |-> 0,
          overall_condition |-> "Unknown", defects |-> <<>>,
          recommendations |-> <<"Please position the device clearly in front of the camera">>,
          timestamp |-> DecodedTimestamp]
    [] OTHER -> <<>>

\* A member given twice takes its last value.
RECURSIVE Decoded(_)
Decoded(w) == IF w = <<>> THEN <<>> ELSE Decoded(Tail(w)) @@ Fields(Head(w))

\* JSON.parse(c): ok, or a SyntaxError.
JSONparse(c) ==
  LET w == SelectSeq(c, LAMBDA a : a # " ")
      inner == SubSeq(w, 2, Len(w) - 1)
  IN  IF /\ Len(w) >= 2 /\ w[1] = "{" /\ w[Len(w)] = "}"
         /\ (inner = <<>> \/ Members(inner))
      THEN [ok |-> TRUE, value |-> Decoded(inner)]
      ELSE [ok |-> FALSE, value |-> <<>>]

\* new Date().toISOString().
Now == "now"

\* "Add timestamp if not present": if (!report.timestamp) report.timestamp = now.
FillTimestamp_OnlyAbsent(report) ==
  IF "timestamp" \notin DOMAIN report THEN [timestamp |-> Now] @@ report ELSE report
FillTimestamp(report) ==
  IF "timestamp" \notin DOMAIN report \/ report.timestamp = ""
  THEN [timestamp |-> Now] @@ report ELSE report

\* parseDefectReport(text) with the report registry hs.
parseDefectReport(text, hs) ==
  LET c == jsonMatch(cleanText(text))
      parsed == JSONparse(c)
      report == FillTimestamp(parsed.value)
      pass == forEach(hs, "report", report)
      begun == <<E("parse", NoSocket, 0, "", text)>>
  IN  IF c = <<>>
      THEN [fx |-> Append(begun, E("log", NoSocket, 0, "No JSON object found in response", <<>>)),
            hs |-> hs]
      ELSE IF ~parsed.ok
      THEN [fx |-> begun \o <<E("jsonMatch", NoSocket, 0, "", c),
                               E("caught", NoSocket, 0, "Failed to parse JSON", <<>>)>>,
            hs |-> hs]
      ELSE [fx |-> begun \o <<E("jsonMatch", NoSocket, 0, "", c),
                               E("report", NoSocket, 0, "", report)>> \o pass.fx
                   \o (IF pass.thrown
                       THEN <<E("caught", NoSocket, 0, "Failed to parse JSON", <<>>)>>
                       ELSE <<>>),
            hs |-> pass.hs]

\* handleMessage(data), for the frame f that answers request `turn`; n is the
\* number of frames delivered before f that are not handled yet.
\* An exception of a message handler leaves the loop over the parts and the
\* rest of the try block for the catch block, which logs it.
handleMessage(f, turn, s, n) ==
  LET isContent == f.kind = "content"
      forwarded == ForwardParts(f.parts, messageHandlers)
      parts1 == SubSeq(f.parts, 1, forwarded.upto)
      buf1 == IF isContent THEN AppendParts(accumulatedResponse, parts1)
              ELSE accumulatedResponse
      rec1 == IF isContent THEN received \o Origins(parts1, turn) ELSE received
      done == isContent /\ f.turnComplete /\ ~forwarded.thrown
      extracted == parseDefectReport(ParsedText(buf1), defectHandlers)
      told == forEach(messageHandlers, "message", ErrorText)
      caught == <<E("caught", NoSocket, 0, "Error parsing message", <<>>)>>
  IN  /\ accumulatedResponse' = IF done THEN AfterTurnComplete(buf1) ELSE buf1
      /\ received' = IF done THEN <<>> ELSE rec1
      /\ fx' = CASE isContent ->
                      forwarded.fx \o (IF forwarded.thrown THEN caught ELSE <<>>)
                      \o (IF done THEN extracted.fx ELSE <<>>)
                 [] IsApiError(f) ->
                      <<E("text", NoSocket, 0, "Error", ErrorText)>> \o told.fx
                      \o (IF told.thrown THEN caught ELSE <<>>)
                 [] OTHER -> <<>>
      /\ messageHandlers' = CASE isContent -> forwarded.hs
                              [] IsApiError(f) -> told.hs
                              [] OTHER -> messageHandlers
      /\ defectHandlers' = IF done THEN extracted.hs ELSE defectHandlers
      /\ op' = Op("handleMessage", s, n,
                  IF done THEN rec1
                  ELSE IF isContent
                  THEN (IF f.turnComplete THEN <<[kind |-> "content", turnComplete |-> TRUE]>>
                        ELSE <<>>)
                  ELSE <<[kind |-> f.kind]>>)

\* ------------------------------------------------------------ components
\* MultiSectionInspector: the indexes of sections, and a section not captured.
SectionIndexes == 0..(NumSections - 1)
NotCaptured == [captured |-> FALSE, imageData |-> FALSE, report |-> <<>>]

\* The report the 30 s timer of a capture resolves it with.
TimedOut ==
  [device_type |-> "Unknown", condition_score |-> 0, overall_condition |-> "Unknown",
   defects |-> <<>>, recommendations |-> <<"Analysis timed out. Please try again.">>,
   timestamp |-> "now"]

\* ------------------------------------------------------------ environment
Alive == {s \in Sockets : readyState[s] # "CLOSED"}
Live == {s \in Sockets : readyState[s] \in {"CONNECTING", "OPEN"}}
FreeSlots == {s \in Sockets : readyState[s] = "CLOSED"}
NewSocket == CHOOSE s \in FreeSlots : \A r \in FreeSlots : s <= r

Min(a, b) == IF a < b THEN a ELSE b

RemoveAt(q, i) == SubSeq(q, 1, i - 1) \o SubSeq(q, i + 1, Len(q))

\* A timer may fire unless one set earlier with a delay no longer is still pending.
MayFire(i) == \A j \in 1..(i - 1) : timers[j] > timers[i]

\* The fields of the session, the registries apart.
session == <<ws, readyState, reconnectAttempts, currentStatus, accumulatedResponse,
             timers, decoding, srvQueue, lastReq, received, explicit, closesSinceOpen,
             unexpectedRun, userClosed, wsUrlOk>>

\* The service after its constructor.
Constructed ==
  /\ ws = NoSocket
  /\ readyState = [s \in Sockets |-> "CLOSED"]
  /\ reconnectAttempts = 0
  /\ currentStatus = "disconnected"
  /\ accumulatedResponse = <<>>
  /\ timers = <<>>
  /\ decoding = <<>>
  /\ srvQueue = [s \in Sockets |-> <<>>]
  /\ lastReq = 0
  /\ received = <<>>
  /\ explicit = [s \in Sockets |-> FALSE]
  /\ closesSinceOpen = 0
  /\ unexpectedRun = 0
  /\ userClosed = FALSE
  /\ wsUrlOk \in BOOLEAN
  /\ statusHandlers = <<>>
  /\ messageHandlers = <<>>
  /\ defectHandlers = <<>>
  /\ released = {}
  /\ op = Op("constructor", NoSocket, 0, <<>>)
  /\ fx = <<>>

\* MultiSectionInspector before its first render: the useState and useRef
\* initial values.
InspectorCreated ==
  /\ pendingReportRef = 0
  /\ captures = <<>>
  /\ deadlines = <<>>
  /\ currentSectionIndex = 0
  /\ isAnalyzing = FALSE
  /\ sections = [i \in SectionIndexes |-> NotCaptured]
  /\ inspectionComplete = FALSE

\* The device-info route before its first request, with no device attached.
RouteIdle ==
  /\ cli = [list |-> "none", info |-> "ok", pair |-> "ok", battery |-> "ok", disk |-> "ok"]
  /\ response = <<>>

Init ==
  /\ Constructed
  /\ InspectorCreated
  /\ currentReport = <<>>
  /\ inspectionHistory = <<>>
  /\ RouteIdle

\* ------------------------------------------------------------ registration
\* onStatusChange(handler), onMessage(handler), onDefectReport(handler).
Room == Len(statusHandlers) + Len(messageHandlers) + Len(defectHandlers) < MaxSubs

onStatusChange(cb) ==
  /\ Room
  /\ statusHandlers' = Append(statusHandlers, cb)
  /\ op' = Op("onStatusChange", NoSocket, 0, <<cb>>)
  /\ fx' = <<>>
  /\ UNCHANGED <<session, messageHandlers, defectHandlers, released, components>>

onMessage(cb) ==
  /\ Room
  /\ messageHandlers' = Append(messageHandlers, cb)
  /\ op' = Op("onMessage", NoSocket, 0, <<cb>>)
  /\ fx' = <<>>
  /\ UNCHANGED <<session, statusHandlers, defectHandlers, released, components>>

onDefectReport(cb) ==
  /\ Room
  /\ defectHandlers' = Append(defectHandlers, cb)
  /\ op' = Op("onDefectReport", NoSocket, 0, <<cb>>)
  /\ fx' = <<>>
  /\ UNCHANGED <<session, statusHandlers, messageHandlers, released, components>>

\* The capabilities they return: the caller calls one for a callback that is
\* registered, or one it has called before and still holds.  Having called
\* one, it keeps it or lets go of it.
Registered(hs, cb) == \E i \in 1..Len(hs) : hs[i] = cb
Kept(cap) == IF Cardinality(released \cup {cap}) <= MaxHeld THEN {released \cup {cap}} ELSE {}

unsubStatus(cb) ==
  /\ Registered(statusHandlers, cb) \/ <<"status", cb>> \in released
  /\ statusHandlers' = Unregister(statusHandlers, cb)
  /\ released' \in {released} \cup Kept(<<"status", cb>>)
  /\ op' = Op("unsubStatus", NoSocket, Len(statusHandlers) - Len(Unregister(statusHandlers, cb)), <<cb>>)
  /\ fx' = <<>>
  /\ UNCHANGED <<session, messageHandlers, defectHandlers, components>>

unsubMessage(cb) ==
  /\ Registered(messageHandlers, cb) \/ <<"message", cb>> \in released
  /\ messageHandlers' = Unregister(messageHandlers, cb)
  /\ released' \in {released} \cup Kept(<<"message", cb>>)
  /\ op' = Op("unsubMessage", NoSocket, Len(messageHandlers) - Len(Unregister(messageHandlers, cb)), <<cb>>)
  /\ fx' = <<>>
  /\ UNCHANGED <<session, statusHandlers, defectHandlers, components>>

unsubDefect(cb) ==
  /\ Registered(defectHandlers, cb) \/ <<"report", cb>> \in released
  /\ defectHandlers' = Unregister(defectHandlers, cb)
  /\ released' \in {released} \cup Kept(<<"report", cb>>)
  /\ op' = Op("unsubDefect", NoSocket, Len(defectHandlers) - Len(Unregister(defectHandlers, cb)), <<cb>>)
  /\ fx' = <<>>
  /\ UNCHANGED <<session, statusHandlers, messageHandlers, components>>

\* A component that registers its one report handler when it mounts.
Mount == defectHandlers = <<>> /\ onDefectReport("f")

\* ---------------------------------------------------------------- connect
\* connect(), called by the caller (who = "caller") or by a reconnect timer
\* (who = "timer"); tm is the timer queue once the call has started.
connect(who, tm) ==
  LET connecting == setStatus("connecting", statusHandlers)
      failed == setStatus("error", connecting.hs)
  IN
  /\ timers' = tm
  /\ userClosed' = IF who = "caller" THEN FALSE ELSE userClosed
  /\ op' = Op("connect", ws, Cardinality(Live), <<who>>)
  /\ IF ConnectIsNoop(ws, readyState)
     THEN /\ fx' = <<>>
          /\ UNCHANGED <<ws, readyState, currentStatus, srvQueue, explicit, statusHandlers>>
     ELSE IF ~wsUrlOk
     THEN /\ currentStatus' = "error"
          /\ statusHandlers' = failed.hs
          /\ fx' = connecting.fx \o <<E("throw", NoSocket, 0, "new WebSocket", <<>>)>>
                   \o failed.fx \o <<E("reject", NoSocket, 0, "exception", <<>>)>>
          /\ UNCHANGED <<ws, readyState, srvQueue, explicit>>
     ELSE /\ FreeSlots # {}
          /\ LET s == NewSocket
             IN  /\ currentStatus' = "connecting"
                 /\ statusHandlers' = connecting.hs
                 /\ readyState' = [readyState EXCEPT ![s] = "CONNECTING"]
                 /\ ws' = s
                 /\ srvQueue' = [srvQueue EXCEPT ![s] = <<>>]
                 /\ explicit' = [explicit EXCEPT ![s] = FALSE]
                 /\ fx' = connecting.fx \o <<E("new", s, 0, "", <<>>)>>
  /\ UNCHANGED <<reconnectAttempts, accumulatedResponse, decoding, lastReq, received,
                 closesSinceOpen, unexpectedRun, wsUrlOk, messageHandlers, defectHandlers,
                 released, components>>

\* A caller that calls connect() at any moment (as long as a socket object
\* is left for it, or the call returns early).
CallerConnect ==
  /\ \/ ws # NoSocket /\ readyState[ws] = "OPEN"
     \/ Cardinality(Alive) + Len(timers) < MaxSockets
  /\ connect("caller", timers)

\* A caller that calls connect() only while the session is idle (no socket of
\* an earlier connect is alive and no reconnect is pending) or while the
\* current socket is open.
CallerConnectIdle ==
  /\ \/ Alive = {} /\ timers = <<>>
     \/ ws # NoSocket /\ readyState[ws] = "OPEN"
  /\ connect("caller", timers)

TimerFires ==
  \E i \in DOMAIN timers :
    /\ MayFire(i)
    /\ connect("timer", RemoveAt(timers, i))

\* ws.onopen of socket s.
OnOpen(s) ==
  /\ readyState[s] = "CONNECTING"
  /\ LET rs == [readyState EXCEPT ![s] = "OPEN"]
         connected == setStatus("connected", statusHandlers)
     IN  /\ readyState' = rs
         /\ reconnectAttempts' = OnOpenAttempts(reconnectAttempts)
         /\ currentStatus' = "connected"
         /\ statusHandlers' = connected.hs
         /\ fx' = sendSetupMessage(ws, rs) \o connected.fx \o <<E("resolve", s, 0, "", <<>>)>>
  /\ closesSinceOpen' = 0
  /\ unexpectedRun' = 0
  /\ op' = Op("onopen", s, reconnectAttempts, <<>>)
  /\ UNCHANGED <<ws, accumulatedResponse, timers, decoding, srvQueue, lastReq, received,
                 explicit, userClosed, wsUrlOk, messageHandlers, defectHandlers,
                 released, components>>

\* ws.onerror of socket s, with the status registry hs.
onerror_Silent(s, hs) == [fx |-> <<>>, hs |-> hs]
onerror(s, hs) ==
  LET failed == setStatus("error", hs)
  IN  [fx |-> failed.fx \o <<E("reject", s, 0, "event", <<>>)>>, hs |-> failed.hs]

\* The close event of socket s, after its error event when the connection
\* failed (err): ws.onerror, then ws.onclose, in one task.
OnClose(s, err) ==
  /\ \/ readyState[s] = "CONNECTING" /\ err
     \/ readyState[s] \in {"OPEN", "CLOSING"}
  /\ readyState' = [readyState EXCEPT ![s] = "CLOSED"]
  /\ currentStatus' = "disconnected"
  /\ reconnectAttempts' = NextAttempts(reconnectAttempts)
  /\ timers' = IF CanReconnect(reconnectAttempts)
               THEN Append(timers, ReconnectDelay(NextAttempts(reconnectAttempts)))
               ELSE timers
  /\ LET errored == IF err THEN onerror(s, statusHandlers)
                    ELSE [fx |-> <<>>, hs |-> statusHandlers]
         closed == setStatus("disconnected", errored.hs)
     IN  /\ statusHandlers' = closed.hs
         /\ fx' = errored.fx \o closed.fx
                  \o (IF CanReconnect(reconnectAttempts)
                      THEN <<E("timer", s, ReconnectDelay(NextAttempts(reconnectAttempts)),
                               "", <<>>)>>
                      ELSE <<>>)
  /\ srvQueue' = [srvQueue EXCEPT ![s] = <<>>]
  /\ closesSinceOpen' = Min(closesSinceOpen + 1, maxReconnectAttempts + 1)
  /\ unexpectedRun' = IF explicit[s] THEN unexpectedRun
                      ELSE Min(unexpectedRun + 1, maxReconnectAttempts + 1)
  /\ op' = Op("onclose", s, reconnectAttempts,
              <<readyState[s], IF err THEN "error" ELSE "close">>)
  /\ UNCHANGED <<ws, accumulatedResponse, decoding, lastReq, received, explicit, userClosed,
                 wsUrlOk, messageHandlers, defectHandlers, released, components>>

\* disconnect().
Disconnect ==
  /\ IF ws # NoSocket
     THEN /\ readyState' = [readyState EXCEPT
                              ![ws] = IF @ \in {"CONNECTING", "OPEN"} THEN "CLOSING" ELSE @]
          /\ explicit' = [explicit EXCEPT ![ws] = TRUE]
     ELSE UNCHANGED <<readyState, explicit>>
  /\ ws' = NoSocket
  /\ currentStatus' = "disconnected"
  /\ accumulatedResponse' = DisconnectBuffer(accumulatedResponse)
  /\ received' = IF DisconnectBuffer(accumulatedResponse) = <<>> THEN <<>>
                 ELSE [i \in DOMAIN received |-> [received[i] EXCEPT !.stale = TRUE]]
  /\ userClosed' = TRUE
  /\ LET closed == setStatus("disconnected", statusHandlers)
     IN  /\ statusHandlers' = closed.hs
         /\ fx' = (IF ws # NoSocket THEN <<E("close", ws, 0, "", <<>>)>> ELSE <<>>)
                  \o closed.fx
  /\ op' = Op("disconnect", ws, Len(accumulatedResponse), <<>>)
  /\ unexpectedRun' = 0
  /\ UNCHANGED <<reconnectAttempts, timers, decoding, srvQueue, lastReq, closesSinceOpen,
                 wsUrlOk, messageHandlers, defectHandlers, released, components>>

\* ------------------------------------------------------------------ sends
\* A request written to the current socket: the service will answer it.
Request(name, buf) ==
  /\ lastReq < MaxReq
  /\ accumulatedResponse' = buf
  /\ received' = IF buf = <<>> THEN <<>> ELSE received
  /\ lastReq' = lastReq + 1
  /\ srvQueue' = [srvQueue EXCEPT ![ws] = Append(@, lastReq + 1)]
  /\ fx' = <<E("send", ws, lastReq + 1, "clientContent", <<>>)>>
  /\ op' = Op(name, ws, 0, <<>>)

\* A send while the socket is absent or not open: console.warn and return.
NotConnected(name) ==
  /\ fx' = <<E("warn", NoSocket, 0, "WebSocket not connected", <<>>)>>
  /\ op' = Op(name, NoSocket, 0, <<>>)
  /\ UNCHANGED <<accumulatedResponse, received, lastReq, srvQueue>>

\* What no send touches.
sendFrame == <<ws, readyState, reconnectAttempts, currentStatus, timers, decoding,
               explicit, closesSinceOpen, unexpectedRun, userClosed, wsUrlOk,
               statusHandlers, messageHandlers, defectHandlers, released, components>>

sendImageWithPrompt ==
  /\ IF CanSend(ws, readyState)
     THEN Request("sendImageWithPrompt", ImagePromptBuffer(accumulatedResponse))
     ELSE NotConnected("sendImageWithPrompt")
  /\ UNCHANGED sendFrame

sendTextPrompt ==
  /\ IF CanSend(ws, readyState)
     THEN Request("sendTextPrompt", TextPromptBuffer(accumulatedResponse))
     ELSE NotConnected("sendTextPrompt")
  /\ UNCHANGED sendFrame

sendVideoFrame ==
  /\ IF CanSend(ws, readyState)
     THEN /\ fx' = <<E("send", ws, 0, "realtimeInput", <<>>)>>
          /\ op' = Op("sendVideoFrame", ws, 0, <<>>)
          /\ UNCHANGED <<accumulatedResponse, received, lastReq, srvQueue>>
     ELSE NotConnected("sendVideoFrame")
  /\ UNCHANGED sendFrame

\* A caller that sends its next image once the last one has been answered.
CaptureAndAnalyze == (ws # NoSocket => srvQueue[ws] = <<>>) /\ sendImageWithPrompt

\* ---------------------------------------------------------- inbound frames
\* The frames the service may put on socket s now: content only for a request
\* it has not completed, and no more text than the bound allows.
ServiceFrames(s) ==
  {f \in OtherFrames \cup (IF srvQueue[s] # <<>> THEN ContentFrames ELSE {}) :
     Len(accumulatedResponse) + SumLen(decoding) + FrameLen(f) <= MaxBuf}

\* A service that answers each request with one frame, the whole reply, or
\* with a first fragment of prose and then the rest of the reply.
WholeReplies(s) ==
  IF srvQueue[s] = <<>> THEN {}
  ELSE ReplyFrames \cup (IF accumulatedResponse = <<>> THEN {Preamble} ELSE {})

\* A service that sends a fragment of prose, then a reply that ends the turn,
\* and error markers.
ShortSession(s) ==
  {f \in ShortFrames :
     /\ f.kind = "content" => srvQueue[s] # <<>>
     /\ (f.kind = "content" /\ ~f.turnComplete) => accumulatedResponse = <<>>}

\* ws.onmessage of socket s for a string frame, one of frames:
\* handleMessage(event.data) at once.
onmessage(s, frames) ==
  /\ readyState[s] \in {"OPEN", "CLOSING"}
  /\ \E f \in frames :
       /\ handleMessage(f, IF f.kind = "content" THEN Head(srvQueue[s]) ELSE 0, s,
                        Len(decoding))
       /\ srvQueue' = IF f.turnComplete THEN [srvQueue EXCEPT ![s] = Tail(@)] ELSE srvQueue
  /\ UNCHANGED <<ws, readyState, reconnectAttempts, currentStatus, timers, decoding,
                 lastReq, explicit, closesSinceOpen, unexpectedRun, userClosed, wsUrlOk,
                 statusHandlers, released, device>>

\* ... with callbacks that leave the components alone.
OnMessageString(s) == onmessage(s, ServiceFrames(s)) /\ UNCHANGED <<inspector, panel>>
OnReply(s) == onmessage(s, WholeReplies(s)) /\ UNCHANGED <<inspector, panel>>
OnShortFrame(s) == onmessage(s, ShortSession(s)) /\ UNCHANGED <<inspector, panel>>

\* ------------------------------------------------- MultiSectionInspector
\* The component is mounted (its report handler is registered) and renders:
\* sections[currentSectionIndex] is a section.
Rendered == Registered(defectHandlers, "f") /\ currentSectionIndex \in SectionIndexes

\* The answers of a service that replies to every request with one frame:
\* a report, or prose without one.
InspectorFrames(s) ==
  IF srvQueue[s] = <<>> THEN {}
  ELSE {[kind |-> "content", parts |-> <<Obj("report+ts")>>, turnComplete |-> TRUE],
        [kind |-> "content", parts |-> <<<<"x">>>>, turnComplete |-> TRUE]}

\* captureAndAnalyzeSection after "await reportPromise", for capture c resolved
\* with report: the section the capture closed over gets the report, and the
\* index advances unless that section was the last one.
Resumed(c, report, outcome, from) ==
  LET at == captures[c].section
  IN  /\ captures' = [captures EXCEPT ![c].outcome = outcome, ![c].from = from]
      /\ sections' = [i \in SectionIndexes |->
                        IF i = at THEN [sections[i] EXCEPT !.captured = TRUE, !.report = report]
                        ELSE sections[i]]
      /\ IF at < NumSections - 1
         THEN currentSectionIndex' = currentSectionIndex + 1 /\ UNCHANGED inspectionComplete
         ELSE inspectionComplete' = TRUE /\ UNCHANGED currentSectionIndex
      /\ isAnalyzing' = FALSE

\* captureAndAnalyzeSection, from the Capture button (disabled while
\* isAnalyzing or not connected), up to "await reportPromise"; frameData is
\* what captureFrame() returned (FALSE: null).
captureAndAnalyzeSection(frameData) ==
  /\ Rendered /\ ~isAnalyzing /\ currentStatus = "connected"
  /\ Len(captures) < MaxReq
  /\ IF ~frameData
     THEN /\ op' = Op("captureAndAnalyzeSection", NoSocket, currentSectionIndex, <<>>)
          /\ fx' = <<E("setError", NoSocket, 0, "Failed to capture frame", <<>>)>>
          /\ UNCHANGED <<inspector, accumulatedResponse, received, lastReq, srvQueue>>
     ELSE /\ isAnalyzing' = TRUE
          /\ sections' = [sections EXCEPT ![currentSectionIndex].imageData = TRUE]
          /\ pendingReportRef' = Len(captures) + 1
          /\ deadlines' = Append(deadlines, Len(captures) + 1)
          /\ captures' = Append(captures,
                                [section |-> currentSectionIndex,
                                 req |-> IF CanSend(ws, readyState) THEN lastReq + 1 ELSE 0,
                                 outcome |-> "pending", from |-> 0, stale |-> FALSE])
          /\ IF CanSend(ws, readyState)
             THEN Request("captureAndAnalyzeSection", ImagePromptBuffer(accumulatedResponse))
             ELSE NotConnected("captureAndAnalyzeSection")
          /\ UNCHANGED <<currentSectionIndex, inspectionComplete>>
  /\ UNCHANGED <<ws, readyState, reconnectAttempts, currentStatus, timers, decoding,
                 explicit, closesSinceOpen, unexpectedRun, userClosed, wsUrlOk,
                 statusHandlers, messageHandlers, defectHandlers, released, panel, device>>

\* The 30 s timer of the oldest capture that has one pending.
DeadlineFires ==
  /\ deadlines # <<>>
  /\ deadlines' = Tail(deadlines)
  /\ LET c == Head(deadlines)
     IN  /\ op' = Op("timeout", NoSocket, c, <<pendingReportRef>>)
         /\ IF pendingReportRef # 0
            THEN /\ pendingReportRef' = 0
                 /\ IF captures[c].outcome = "pending"
                    THEN /\ Resumed(c, TimedOut, "fallback", 0)
                         /\ fx' = <<E("resolve", NoSocket, c, "fallback", <<>>)>>
                    ELSE /\ fx' = <<E("resolve", NoSocket, c, "settled", <<>>)>>
                         /\ UNCHANGED <<captures, sections, currentSectionIndex,
                                        inspectionComplete, isAnalyzing>>
            ELSE /\ fx' = <<>>
                 /\ UNCHANGED <<pendingReportRef, captures, sections, currentSectionIndex,
                                inspectionComplete, isAnalyzing>>
  /\ UNCHANGED <<session, statusHandlers, messageHandlers, defectHandlers, released,
                 panel, device>>

\* The calls of callback cb with a report, among the effects es.
ReportsTo(cb, es) ==
  {i \in DOMAIN es : es[i].t = "call" /\ es[i].v = cb /\ es[i - es[i].n].v = "report"}

\* ws.onmessage of socket s with the component's report handler registered:
\* the handler resolves the capture pendingReportRef holds, whatever request
\* the report answers, and that capture resumes once the frame is handled.
OnInspectorFrame(s) ==
  /\ onmessage(s, InspectorFrames(s))
  /\ LET got == ReportsTo("f", fx')
     IN  IF got = {} \/ pendingReportRef = 0
         THEN UNCHANGED inspector
         ELSE /\ pendingReportRef' = 0
              /\ Resumed(pendingReportRef, fx'[Least(got)].x, "report", Head(srvQueue[s]))
              /\ UNCHANGED deadlines
  /\ UNCHANGED panel

\* goToSection(index), from the section list and the Previous / Next buttons.
goToSection(index) ==
  /\ Rendered
  /\ currentSectionIndex' = IF index >= 0 /\ index < NumSections THEN index
                            ELSE currentSectionIndex
  /\ op' = Op("goToSection", NoSocket, index, <<>>)
  /\ fx' = <<>>
  /\ UNCHANGED <<session, statusHandlers, messageHandlers, defectHandlers, released,
                 pendingReportRef, captures, deadlines, isAnalyzing, sections,
                 inspectionComplete, panel, device>>

\* --------------------------------------------------------- excelExport
\* generateInspectionReport: s.report?.condition_score || 0, and the like.
ScoreOf(report) == IF "condition_score" \in DOMAIN report THEN report.condition_score ELSE 0
ConditionOf(report) ==
  IF "overall_condition" \in DOMAIN report THEN report.overall_condition ELSE "Unknown"
DefectsOf(report) == IF "defects" \in DOMAIN report THEN report.defects ELSE <<>>
TypeOf(report) == IF "device_type" \in DOMAIN report THEN report.device_type ELSE "Unknown"

\* sections.filter((s) => s.report): the indexes of those sections, from i on.
RECURSIVE completedSections(_, _)
completedSections(secs, i) ==
  IF i >= NumSections THEN <<>>
  ELSE (IF secs[i].report # <<>> THEN <<i>> ELSE <<>>) \o completedSections(secs, i + 1)

RECURSIVE SumOf(_)
SumOf(ns) == IF ns = <<>> THEN 0 ELSE Head(ns) + SumOf(Tail(ns))

\* Math.round(scores.reduce((a, b) => a + b, 0) / scores.length), or 0.
RoundedMean(scores) ==
  IF Len(scores) > 0 THEN (2 * SumOf(scores) + Len(scores)) \div (2 * Len(scores)) ELSE 0

getCondition(score) ==
  IF score >= 9 THEN "Excellent"
  ELSE IF score >= 7 THEN "Good"
  ELSE IF score >= 5 THEN "Fair"
  ELSE IF score >= 3 THEN "Poor"
  ELSE "Damaged"

\* generateInspectionReport(sections), with no inspection id and no USB
\* device information.
generateInspectionReport(secs) ==
  LET completed == completedSections(secs, 0)
      reports == [k \in DOMAIN completed |-> secs[completed[k]].report]
      deviceTypes == SelectSeq([k \in DOMAIN reports |-> TypeOf(reports[k])],
                               LAMBDA t : t \notin {"Not Detected", "Unknown"})
      scores == SelectSeq([k \in DOMAIN reports |-> ScoreOf(reports[k])], LAMBDA n : n > 0)
      overallScore == RoundedMean(scores)
  IN  [deviceType |-> IF deviceTypes # <<>> THEN deviceTypes[1] ELSE "Unknown Device",
       overallScore |-> overallScore,
       overallCondition |-> getCondition(overallScore),
       sections |-> [k \in DOMAIN completed |->
                       [sectionName |-> completed[k], score |-> ScoreOf(reports[k]),
                        condition |-> ConditionOf(reports[k])]],
       totalDefects |-> SumOf([k \in DOMAIN reports |-> Len(DefectsOf(reports[k]))])]

\* const completedCount = sections.filter((s) => s.captured).length
completedCount == Cardinality({i \in SectionIndexes : sections[i].captured})

\* The captures so far, each marked as started before a reset.
BeforeReset == [c \in DOMAIN captures |-> [captures[c] EXCEPT !.stale = TRUE]]

\* resetInspection(), from the "Reset Current" button, which is rendered
\* while completedCount > 0.
resetInspection ==
  /\ Rendered /\ completedCount > 0
  /\ sections' = [i \in SectionIndexes |-> NotCaptured]
  /\ currentSectionIndex' = 0
  /\ inspectionComplete' = FALSE
  /\ captures' = BeforeReset
  /\ op' = Op("resetInspection", NoSocket, completedCount, <<>>)
  /\ fx' = <<>>
  /\ UNCHANGED <<session, statusHandlers, messageHandlers, defectHandlers, released,
                 pendingReportRef, deadlines, isAnalyzing, panel, device>>

\* handleSaveToBatch(), from the "Save & Next Phone" button, rendered while
\* completedCount > 0: the report of the inspection is added to the batch,
\* then resetInspection().
handleSaveToBatch ==
  /\ Rendered /\ completedCount > 0
  /\ sections' = [i \in SectionIndexes |-> NotCaptured]
  /\ currentSectionIndex' = 0
  /\ inspectionComplete' = FALSE
  /\ captures' = BeforeReset
  /\ op' = Op("handleSaveToBatch", NoSocket, completedCount, <<>>)
  /\ fx' = <<E("setBatchInspections", NoSocket, completedCount, "append",
                generateInspectionReport(sections))>>
  /\ UNCHANGED <<session, statusHandlers, messageHandlers, defectHandlers, released,
                 pendingReportRef, deadlines, isAnalyzing, panel, device>>

\* handleExportExcel(), from the "Export This Phone" button, rendered while
\* completedCount > 0: the report of the inspection is given to exportToExcel.
handleExportExcel ==
  /\ Rendered /\ completedCount > 0
  /\ op' = Op("handleExportExcel", NoSocket, completedCount, <<>>)
  /\ fx' = <<E("exportToExcel", NoSocket, completedCount, "report",
                generateInspectionReport(sections))>>
  /\ UNCHANGED <<session, statusHandlers, messageHandlers, defectHandlers, released,
                 components>>

\* ------------------------------------------------------- DeviceInspector
\* The component registers its report handler when it mounts.
MountPanel == defectHandlers = <<>> /\ onDefectReport("f")

\* A report of an earlier part of the session.
Earlier == [timestamp |-> "earlier"] @@ WellFormed

\* The component after n reports of a device, for every n up to the ceiling
\* of the history.
PanelAfterReports ==
  /\ inspectionHistory \in {[i \in 1..n |-> Earlier] : n \in 0..historyLimit}
  /\ currentReport = IF inspectionHistory = <<>> THEN <<>> ELSE Earlier

\* Its report handler: setInspectionHistory((prev) => [report, ...prev].slice(0, 10))
\* unless the report is the "Not Detected" one.
AddToHistory_Unfiltered(prev, report) ==
  SubSeq(<<report>> \o prev, 1, Min(Len(prev) + 1, historyLimit))
AddToHistory(prev, report) ==
  IF report.device_type # "Not Detected"
  THEN SubSeq(<<report>> \o prev, 1, Min(Len(prev) + 1, historyLimit))
  ELSE prev

\* The answers of a service that replies to every request with one frame: a
\* report of a device (with or without a timestamp), the report that says no
\* device is visible, or prose.
PanelFrames(s) ==
  IF srvQueue[s] = <<>> THEN {}
  ELSE {[kind |-> "content", parts |-> <<Obj(m)>>, turnComplete |-> TRUE] :
          m \in {"report", "report+ts", "sentinel"}}
       \cup {[kind |-> "content", parts |-> <<<<"x">>>>, turnComplete |-> TRUE]}

\* ws.onmessage of socket s with the component's report handler registered.
OnPanelFrame(s) ==
  /\ onmessage(s, PanelFrames(s))
  /\ LET got == ReportsTo("f", fx')
     IN  IF got = {} THEN UNCHANGED panel
         ELSE /\ currentReport' = fx'[Least(got)].x
              /\ inspectionHistory' = AddToHistory(inspectionHistory, fx'[Least(got)].x)
  /\ UNCHANGED inspector

\* ------------------------------------------------------- device-info route
\* How the commands of the CLI can end: "fail" is a command that is not
\* installed, times out or exits non-zero (execAsync rejects); idevice_id -l
\* prints no, one or two identifiers; idevicepair validate can fail with a
\* message that contains "not paired".
CliOutcomes ==
  [list : {"fail", "none", "one", "two"}, info : {"ok", "fail"},
   pair : {"ok", "not paired", "fail"}, battery : {"ok", "fail"}, disk : {"ok", "fail"}]

getConnectedDevices(c) ==
  CASE c.list = "one" -> <<"udid1">>
    [] c.list = "two" -> <<"udid1", "udid2">>
    [] OTHER -> <<>>

checkPairingStatus(c) ==
  CASE c.pair = "ok" -> "Paired"
    [] c.pair = "not paired" -> "Not Paired"
    [] OTHER -> "Unknown"

\* getBatteryInfo and getDiskUsage return {} when their command fails.
getBatteryInfo(c) == IF c.battery = "ok" THEN <<80>> ELSE <<>>
getDiskUsage(c) == IF c.disk = "ok" THEN <<"64.0 GB", "12.5 GB">> ELSE <<"", "">>

\* The body GET answers with. getDeviceInfo rethrows the failure of
\* ideviceinfo, and GET catches it.
GetResponse(c) ==
  LET devices == getConnectedDevices(c)
  IN  IF devices = <<>>
      THEN [connected |-> FALSE,
            error |-> "No iOS device connected. Please connect a device via USB cable."]
      ELSE IF c.info = "fail"
      THEN IF checkPairingStatus(c) = "Not Paired"
           THEN [connected |-> TRUE, udid |-> devices[1], pairingStatus |-> "Not Paired",
                 error |-> "Device is not paired. Please unlock your iPhone and tap 'Trust' when prompted."]
           ELSE [connected |-> TRUE, udid |-> devices[1], error |-> "Command failed: ideviceinfo"]
      ELSE [connected |-> TRUE, udid |-> devices[1], deviceName |-> "iPhone",
            batteryLevel |-> getBatteryInfo(c),
            storageTotal |-> getDiskUsage(c)[1], storageUsed |-> getDiskUsage(c)[2],
            pairingStatus |-> checkPairingStatus(c)]

GET ==
  /\ response' = GetResponse(cli)
  /\ op' = Op("GET", NoSocket, Len(getConnectedDevices(cli)), <<>>)
  /\ fx' = <<>>
  /\ UNCHANGED <<session, statusHandlers, messageHandlers, defectHandlers, released,
                 inspector, panel, cli>>

\* ws.onmessage of socket s for a Blob frame: up to "await event.data.text()".
OnMessageBlob(s) ==
  /\ readyState[s] \in {"OPEN", "CLOSING"}
  /\ Len(decoding) < MaxDecoding
  /\ \E f \in ServiceFrames(s) :
       /\ decoding' = Append(decoding,
                             [frame |-> f,
                              turn |-> IF f.kind = "content" THEN Head(srvQueue[s]) ELSE 0])
       /\ srvQueue' = IF f.turnComplete THEN [srvQueue EXCEPT ![s] = Tail(@)] ELSE srvQueue
  /\ op' = Op("onmessage", s, Len(decoding), <<>>)
  /\ fx' = <<>>
  /\ UNCHANGED <<ws, readyState, reconnectAttempts, currentStatus, accumulatedResponse,
                 timers, lastReq, received, explicit, closesSinceOpen,
                 unexpectedRun, userClosed, wsUrlOk, statusHandlers, messageHandlers,
                 defectHandlers, released, components>>

\* The continuation of ws.onmessage once a Blob's text() has resolved; the
\* browser resolves the pending reads in no particular order.
BlobDecoded ==
  \E i \in DOMAIN decoding :
    /\ handleMessage(decoding[i].frame, decoding[i].turn, NoSocket, i - 1)
    /\ decoding' = RemoveAt(decoding, i)
    /\ UNCHANGED <<ws, readyState, reconnectAttempts, currentStatus, timers, srvQueue,
                   lastReq, explicit, closesSinceOpen, unexpectedRun, userClosed, wsUrlOk,
                   statusHandlers, released, components>>

Next ==
  \/ CallerConnect
  \/ TimerFires
  \/ \E s \in Sockets : OnOpen(s)
  \/ \E s \in Sockets, err \in BOOLEAN : OnClose(s, err)
  \/ Disconnect
  \/ sendImageWithPrompt
  \/ sendTextPrompt
  \/ sendVideoFrame
  \/ \E s \in Sockets : OnMessageString(s)
  \/ \E s \in Sockets : OnMessageBlob(s)
  \/ BlobDecoded
  \/ \E cb \in Callbacks : onStatusChange(cb) \/ onMessage(cb) \/ onDefectReport(cb)
  \/ \E cb \in Callbacks : unsubStatus(cb) \/ unsubMessage(cb) \/ unsubDefect(cb)

Spec == Init /\ [][Next]_vars

\* The socket lifecycle alone: every interleaving of caller connect() and
\* disconnect() calls, socket events and reconnect timers; no traffic.
NextConn ==
  \/ CallerConnect
  \/ TimerFires
  \/ \E s \in Sockets : OnOpen(s)
  \/ \E s \in Sockets, err \in BOOLEAN : OnClose(s, err)
  \/ Disconnect

SpecConn == Init /\ [][NextConn]_vars

\* The traffic of a session whose caller connects only while it is idle and
\* whose service sends text (string) frames.
NextTurn ==
  \/ CallerConnectIdle
  \/ TimerFires
  \/ \E s \in Sockets : OnOpen(s)
  \/ \E s \in Sockets, err \in BOOLEAN : OnClose(s, err)
  \/ Disconnect
  \/ sendImageWithPrompt
  \/ sendTextPrompt
  \/ sendVideoFrame
  \/ \E s \in Sockets : OnMessageString(s)

SpecTurn == Init /\ [][NextTurn]_vars

\* The same session with a service that sends text and binary (Blob) frames.
NextBlob ==
  \/ CallerConnectIdle
  \/ TimerFires
  \/ \E s \in Sockets : OnOpen(s)
  \/ \E s \in Sockets, err \in BOOLEAN : OnClose(s, err)
  \/ Disconnect
  \/ sendImageWithPrompt
  \/ sendTextPrompt
  \/ sendVideoFrame
  \/ \E s \in Sockets : OnMessageString(s)
  \/ \E s \in Sockets : OnMessageBlob(s)
  \/ BlobDecoded

SpecBlob == Init /\ [][NextBlob]_vars

\* The report extractor: a session whose service answers every request with
\* one frame that carries a whole reply, made of up to MaxPieces pieces.
NextExtract ==
  \/ CallerConnectIdle
  \/ \E s \in Sockets : OnOpen(s)
  \/ Mount
  \/ CaptureAndAnalyze
  \/ \E s \in Sockets : OnReply(s)

SpecExtract == Init /\ [][NextExtract]_vars

\* The fan-out: a short session whose caller registers and unregisters
\* callbacks of the three kinds at any moment, and calls each unregister
\* capability once.
NextSub ==
  \/ \E cb \in Callbacks : onStatusChange(cb) \/ onMessage(cb) \/ onDefectReport(cb)
  \/ \E cb \in Callbacks :
       (unsubStatus(cb) \/ unsubMessage(cb) \/ unsubDefect(cb)) /\ released' = released
  \/ CallerConnectIdle
  \/ \E s \in Sockets : OnOpen(s)
  \/ \E s \in Sockets, err \in BOOLEAN : OnClose(s, err)
  \/ Disconnect
  \/ CaptureAndAnalyze
  \/ \E s \in Sockets : OnShortFrame(s)

SpecSub == Init /\ [][NextSub]_vars

\* Unregistering: a session whose caller registers status and message
\* callbacks and calls the unregister capabilities it holds at any moment,
\* before and after disconnect(), also the ones it has called before; the
\* service sends error markers.
NextUnsub ==
  \/ \E cb \in Callbacks : onStatusChange(cb) \/ onMessage(cb)
  \/ \E cb \in Callbacks : unsubStatus(cb) \/ unsubMessage(cb)
  \/ CallerConnectIdle
  \/ \E s \in Sockets : OnOpen(s)
  \/ Disconnect
  \/ \E s \in Sockets : OnShortFrame(s)

SpecUnsub == Init /\ [][NextUnsub]_vars

\* The inbound frames of a session with subscribers: the caller registers
\* callbacks of the three kinds before it connects, and the service sends
\* frames of every shape, text in one part or several, turns that end and
\* parse or do not.
NextFrames ==
  \/ \E cb \in Callbacks :
       Alive = {} /\ (onStatusChange(cb) \/ onMessage(cb) \/ onDefectReport(cb))
  \/ CallerConnectIdle
  \/ \E s \in Sockets : OnOpen(s)
  \/ CaptureAndAnalyze
  \/ \E s \in Sockets : OnMessageString(s)
  \/ \E s \in Sockets : OnShortFrame(s)

SpecFrames == Init /\ [][NextFrames]_vars

\* A session whose caller registers, before it connects, message and report
\* callbacks of which some throw.
NextThrow ==
  \/ \E cb \in CallbacksThatMayThrow : Alive = {} /\ (onMessage(cb) \/ onDefectReport(cb))
  \/ CallerConnectIdle
  \/ \E s \in Sockets : OnOpen(s)
  \/ CaptureAndAnalyze
  \/ \E s \in Sockets : OnShortFrame(s)

SpecThrow == Init /\ [][NextThrow]_vars

\* The six-section inspector: its user connects, captures section after
\* section, moves between the sections and resets; the service answers each
\* request with one frame, at any time after the request.
NextInspect ==
  \/ Mount
  \/ CallerConnectIdle
  \/ \E s \in Sockets : OnOpen(s)
  \/ \E frameData \in BOOLEAN : captureAndAnalyzeSection(frameData)
  \/ DeadlineFires
  \/ \E s \in Sockets : OnInspectorFrame(s)
  \/ \E index \in SectionIndexes : goToSection(index)
  \/ resetInspection
  \/ handleSaveToBatch

SpecInspect == Init /\ [][NextInspect]_vars

\* Inspections to export: the first sections, up to MaxScored of them, have
\* been captured, each with a report of some score.
Scored(n) == [timestamp |-> DecodedTimestamp] @@ [WellFormed EXCEPT !.condition_score = n]

InitExport ==
  /\ Constructed
  /\ pendingReportRef = 0
  /\ captures = <<>>
  /\ deadlines = <<>>
  /\ isAnalyzing = FALSE
  /\ inspectionComplete = FALSE
  /\ currentSectionIndex \in 0..MaxScored
  /\ \E score \in [0..(currentSectionIndex - 1) -> 0..MaxScore] :
       sections = [i \in SectionIndexes |->
                     IF i < currentSectionIndex
                     THEN [captured |-> TRUE, imageData |-> TRUE, report |-> Scored(score[i])]
                     ELSE NotCaptured]
  /\ currentReport = <<>>
  /\ inspectionHistory = <<>>
  /\ RouteIdle

NextExport ==
  \/ Mount
  \/ handleExportExcel
  \/ handleSaveToBatch

SpecExport == InitExport /\ [][NextExport]_vars

\* The continuous inspector: it sends an image every 3 s while it inspects,
\* and the service answers each with one frame.
InitPanel ==
  /\ Constructed
  /\ InspectorCreated
  /\ PanelAfterReports
  /\ RouteIdle

NextPanel ==
  \/ MountPanel
  \/ CallerConnectIdle
  \/ \E s \in Sockets : OnOpen(s)
  \/ sendImageWithPrompt
  \/ \E s \in Sockets : OnPanelFrame(s)

SpecPanel == InitPanel /\ [][NextPanel]_vars

\* The device-info route, with the commands of the CLI ending in every way.
InitDevice ==
  /\ Constructed
  /\ InspectorCreated
  /\ currentReport = <<>>
  /\ inspectionHistory = <<>>
  /\ cli \in CliOutcomes
  /\ response = <<>>

NextDevice == GET

SpecDevice == InitDevice /\ [][NextDevice]_vars

\* The same, with timers that fire: a pending setTimeout callback runs in the end.
SpecInspectLive == SpecInspect /\ WF_vars(DeadlineFires)

\* ------------------------------------------------------------------ claims
Did(t) == \E i \in DOMAIN fx : fx[i].t = t
Broadcast(status) == \E i \in DOMAIN fx : fx[i].t = "status" /\ fx[i].v = status
ByTimer == op.name = "connect" /\ op.q = <<"timer">>
ByCaller == op.name = "connect" /\ op.q = <<"caller">>
IsSend == op.name \in {"sendImageWithPrompt", "sendTextPrompt"} /\ Did("send")
Parsed == op.name = "handleMessage" /\ Did("parse")

\* C1: after an explicit disconnect() the adapter makes no reconnect attempt of
\* its own: the close event of a socket that disconnect() closed schedules no
\* reconnect timer, and no timer calls connect() before the caller does.
C1_NoReconnectAfterDisconnect ==
  /\ (op.name = "onclose" /\ explicit[op.s]) => ~Did("timer")
  /\ ByTimer => ~userClosed

\* C4: at most one socket of the session is connecting or open at any moment.
C4_OneLiveSocket == Cardinality(Live) <= 1

\* The session has given up: the closure that just happened came after three
\* unexpected closures in a row.
GaveUp == op.name = "onclose" /\ ~explicit[op.s] /\ unexpectedRun > maxReconnectAttempts

\* The ceiling: the reconnect-attempt counter never exceeds 3, and a 4th
\* unexpected closure in a row schedules no reconnect and leaves the status
\* disconnected.
C2_CeilingHolds ==
  /\ reconnectAttempts <= maxReconnectAttempts
  /\ GaveUp => ~Did("timer") /\ currentStatus = "disconnected"

\* Giving up: once four unexpected closures in a row have happened, the status
\* stays disconnected until the caller calls connect().
C2_StaysDisconnected ==
  [][(unexpectedRun > maxReconnectAttempts /\ currentStatus = "disconnected")
       => (currentStatus' = "disconnected" \/ ByCaller')]_vars

\* C2: the reconnect-attempt counter never exceeds 3; after 3 unexpected
\* closures in a row (no explicit disconnect in between) a 4th closure
\* schedules no reconnect, and the status then remains disconnected until the
\* caller calls connect().
C2_ReconnectCeiling == []C2_CeilingHolds /\ C2_StaysDisconnected

\* C3: every open event sets the reconnect-attempt counter to 0, and the
\* closure that follows an open event, when it is unexpected, makes the counter
\* 1 and schedules retry #1 (after 1 x 2000 ms), whatever the counter was
\* before the open.
C3_OpenResetsCounter ==
  /\ op.name = "onopen" => reconnectAttempts = 0
  /\ (op.name = "onclose" /\ closesSinceOpen = 1 /\ ~explicit[op.s])
       => /\ reconnectAttempts = 1
          /\ \E i \in DOMAIN fx : fx[i].t = "timer" /\ fx[i].n = 2000
          /\ timers # <<>> /\ timers[Len(timers)] = 2000

\* A socket opened while retry #3 (set when the counter reached the ceiling)
\* was still pending, and then closed unexpectedly: retry #1 is scheduled.
C3_Witness ==
  /\ op.name = "onclose" /\ closesSinceOpen = 1 /\ ~explicit[op.s]
  /\ timers = <<6000, 2000>>
  /\ reconnectAttempts = 1

\* C10: connect() called while the current socket is open returns at once: it
\* broadcasts no status, creates no socket, sends nothing, and leaves the
\* socket, the status, the reconnect counter and the turn buffer as they were.
C10_ConnectIdempotent ==
  [][(ws # NoSocket /\ readyState[ws] = "OPEN" /\ op'.name = "connect")
       => /\ fx' = <<>>
          /\ UNCHANGED <<ws, readyState, currentStatus, reconnectAttempts,
                         accumulatedResponse>>]_vars

\* connect() returned early, called by a reconnect timer, with the counter
\* above 0 and a status other than connected.
C10_Witness ==
  /\ ByTimer /\ fx = <<>>
  /\ ws # NoSocket /\ readyState[ws] = "OPEN"
  /\ reconnectAttempts > 0
  /\ currentStatus = "disconnected"

\* C5: a request that is sent (sendImageWithPrompt or sendTextPrompt on an
\* open connection) leaves the turn buffer empty.
C5_RequestClearsBuffer == IsSend => accumulatedResponse = <<>>

\* C6: the text handed to the extractor on a turn-complete signal holds only
\* fragments that answer the most recently issued request.
C6_NoCrossTurnText == Parsed => \A i \in DOMAIN op.q : op.q[i].turn = lastReq

\* The texts of the fragments appended since the buffer's last reset, in the
\* order handleMessage received them.
Texts(rec) == [i \in DOMAIN rec |-> rec[i].x]

ParsedString == CHOOSE i \in DOMAIN fx : fx[i].t = "parse"

C8_FramesInOrder == op.name = "handleMessage" => op.n = 0

\* C9: disconnect() discards the in-flight turn: the buffer is empty after it,
\* and nothing accumulated before it is handed to the extractor later.
C9_DisconnectDiscards ==
  /\ op.name = "disconnect" => accumulatedResponse = <<>>
  /\ Parsed => \A i \in DOMAIN op.q : ~op.q[i].stale

IsSetup(e) == e.t = "send" /\ e.v = "setup"

\* C11: on every connection the order is: status connecting broadcast, socket
\* opened, setup payload sent, status connected broadcast, connect() resolved;
\* the setup payload is written only by the open event of a socket, to that
\* socket, once: every socket that opens gets it exactly once, before
\* connected is declared, and no socket gets it at any other moment.
C11_SetupOnceBeforeConnected ==
  /\ (op.name = "connect" /\ Did("new"))
       => \E i, j \in DOMAIN fx :
            i < j /\ fx[i].t = "status" /\ fx[i].v = "connecting" /\ fx[j].t = "new"
  /\ op.name = "onopen"
       => \E i, j, k \in DOMAIN fx :
            /\ i < j /\ j < k
            /\ IsSetup(fx[i]) /\ fx[i].s = op.s
            /\ fx[j].t = "status" /\ fx[j].v = "connected"
            /\ fx[k].t = "resolve" /\ fx[k].s = op.s
  /\ \A i \in DOMAIN fx :
       IsSetup(fx[i]) => /\ op.name = "onopen" /\ fx[i].s = op.s
                         /\ \A j \in DOMAIN fx : IsSetup(fx[j]) => j = i

\* The connection of socket op.s failed before it opened.
FailedToOpen == op.name = "onclose" /\ op.q = <<"CONNECTING", "error">>

\* The socket could not even be created.
FailedToCreate == op.name = "connect" /\ Did("throw")

\* C12: when the connection cannot be established (the socket fails before
\* it opens, or cannot be created), the status error is broadcast and then the
\* promise of that connect() is rejected with the transport's error; connected
\* is broadcast only by the open event of a socket, and the status is connected
\* only while a socket that opened is open.
C12_FailureIsErrorAndReject ==
  /\ FailedToOpen
       => /\ \E i, j \in DOMAIN fx :
               /\ i < j
               /\ fx[i].t = "status" /\ fx[i].v = "error"
               /\ fx[j] = E("reject", op.s, 0, "event", <<>>)
          /\ ~Broadcast("connected") /\ currentStatus # "connected"
  /\ FailedToCreate
       => /\ \E i, j, k \in DOMAIN fx :
               /\ i < j /\ j < k
               /\ fx[i].t = "throw"
               /\ fx[j].t = "status" /\ fx[j].v = "error"
               /\ fx[k] = E("reject", NoSocket, 0, "exception", <<>>)
          /\ ~Did("new") /\ currentStatus = "error"
  /\ Broadcast("connected") => op.name = "onopen" /\ readyState[op.s] = "OPEN"
  /\ currentStatus = "connected" => \E s \in Sockets : readyState[s] = "OPEN"

\* The second connection attempt in a row failed before its socket opened.
C12_Witness ==
  /\ FailedToOpen /\ Did("reject")
  /\ reconnectAttempts = 2
  /\ currentStatus = "disconnected"

SendNames == {"sendImageWithPrompt", "sendTextPrompt", "sendVideoFrame"}

\* C13: a send (sendImageWithPrompt, sendTextPrompt or sendVideoFrame) called
\* while the socket is absent or not open only logs a warning: nothing is
\* written to any socket, nothing is thrown, and the status, the reconnect
\* counter, the turn buffer, the socket and the timers are left as they were.
C13_SendWhileClosedIsNoop ==
  [][((ws = NoSocket \/ readyState[ws] # "OPEN") /\ op'.name \in SendNames)
       => /\ fx' = <<E("warn", NoSocket, 0, "WebSocket not connected", <<>>)>>
          /\ UNCHANGED <<ws, readyState, currentStatus, reconnectAttempts,
                         accumulatedResponse, srvQueue, lastReq, timers>>]_vars

\* sendImageWithPrompt was called with a socket that has closed and a turn
\* buffer that holds text: it only warned.
C13_Witness ==
  /\ op.name = "sendImageWithPrompt" /\ Did("warn")
  /\ ws # NoSocket /\ readyState[ws] = "CLOSED"
  /\ accumulatedResponse # <<>>

\* The delays of the reconnect timers the handler that ran has set.
TimersSet == [i \in {j \in DOMAIN fx : fx[j].t = "timer"} |-> fx[i].n]

\* C14: the n-th close event since the last open event (n = 1, 2, 3) schedules
\* one reconnect, after n x 2000 ms (2000, 4000, 6000), and makes the counter
\* n; a close event adds one to the counter when it schedules a reconnect and
\* leaves it alone when it schedules none.
C14_LinearBackoff ==
  op.name = "onclose"
    => /\ closesSinceOpen \in 1..3
            => /\ reconnectAttempts = closesSinceOpen
               /\ \E i \in DOMAIN TimersSet :
                    /\ DOMAIN TimersSet = {i}
                    /\ TimersSet[i] = closesSinceOpen * 2000
               /\ timers # <<>> /\ timers[Len(timers)] = closesSinceOpen * 2000
       /\ reconnectAttempts = op.n + Cardinality(DOMAIN TimersSet)
       /\ Cardinality(DOMAIN TimersSet) <= 1

\* The third close event since the last open event: retry #3, after 6000 ms.
C14_Witness ==
  /\ op.name = "onclose" /\ closesSinceOpen = 3
  /\ \E i \in DOMAIN fx : fx[i].t = "timer" /\ fx[i].n = 6000
  /\ reconnectAttempts = 3

\* The text fragments forwarded by the effects es, concatenated in order.
RECURSIVE Chunks(_)
Chunks(es) ==
  IF es = <<>> THEN <<>>
  ELSE (IF Head(es).t = "text" THEN Head(es).x ELSE <<>>) \o Chunks(Tail(es))

NoSpace(c) == SelectSeq(c, LAMBDA a : a # " ")

\* The candidate c ends in a comma before its closing brace.
TrailingComma(c) == Len(NoSpace(c)) >= 3 /\ NoSpace(c)[Len(NoSpace(c)) - 1] = ","

\* The candidate c has something else than members and commas between its braces.
Foreign(c) ==
  \E i \in 2..(Len(NoSpace(c)) - 1) : NoSpace(c)[i] \notin MemberAtoms \cup {","}

\* The text t has no brace-delimited candidate, or one that JSON does not allow.
Declines(t) ==
  LET c == jsonMatch(cleanText(t))
  IN  c = <<>> \/ TrailingComma(c) \/ Foreign(c)

\* C16: when the text of a turn has no brace-delimited candidate, or a
\* candidate that is not JSON (a trailing comma, braces or prose inside), the
\* extractor invokes no report subscriber and throws nothing, and the socket,
\* the status, the reconnect counter and the timers are left as they were.
C16_DeclineIsSilent ==
  [][(/\ op'.name = "handleMessage"
      /\ \E i \in DOMAIN fx' : fx'[i].t = "parse" /\ Declines(fx'[i].x))
       => /\ \A i \in DOMAIN fx' :
               /\ fx'[i].t \notin {"report", "throw"}
               /\ fx'[i].t \in {"forEach", "call"} => fx'[i - 1].t = "text"
          /\ UNCHANGED <<ws, readyState, currentStatus, reconnectAttempts, timers,
                         defectHandlers>>]_vars

\* A fenced object with a trailing comma, with a report subscriber registered:
\* the decoding failed, the failure was caught, nobody was called.
C16_Witness ==
  /\ Parsed
  /\ fx[ParsedString].x = FenceJson \o TrailingCommaObj \o SpaceFence
  /\ Did("caught") /\ ~Did("call")
  /\ defectHandlers = <<"f">>
  /\ currentStatus = "connected"

Conditions == {"Excellent", "Good", "Fair", "Poor", "Damaged"}

\* The value v has the shape of a Defect Report.
IsDefectReport(v) ==
  /\ {"device_type", "condition_score", "overall_condition", "defects", "recommendations"}
       \subseteq DOMAIN v
  /\ v.condition_score \in 0..10
  /\ v.overall_condition \in Conditions

\* C17: a candidate that decodes as JSON but has not the shape of a Defect
\* Report (a field missing, a score outside 0..10, a condition outside the
\* fixed set) emits no report: every report emitted has that shape.
C17_ShapeChecked ==
  \A i \in DOMAIN fx : fx[i].t = "report" => IsDefectReport(fx[i].x)

\* The texts that are a fenced block around a well-formed report object that
\* has the member list m.
Fenced(m) == {open \o Obj(m) \o SpaceFence : open \in {FenceJson, SpaceFence}}

\* The report r has the values of the well-formed report object of the replies.
SameValues(r) ==
  /\ DOMAIN r = DOMAIN WellFormed \cup {"timestamp"}
  /\ \A field \in DOMAIN WellFormed : r[field] = WellFormed[field]

\* The effects es from index i on are: the report r emitted, the fan-out over
\* the registry hs begun, and one call of each callback of hs with r, in order.
EmittedToEach(es, i, r, hs) ==
  /\ Len(es) = i + 1 + Len(hs)
  /\ es[i] = E("report", NoSocket, 0, "", r)
  /\ es[i + 1] = E("forEach", NoSocket, Len(hs), "report", hs)
  /\ \A k \in 1..Len(hs) : es[i + 1 + k] = E("call", NoSocket, k, hs[k], r)

FenceStarts(t) ==
  {i \in 1..(Len(t) - 2) : t[i] = "tick" /\ t[i + 1] = "tick" /\ t[i + 2] = "tick"}

\* The text t has a fenced block: an opening fence and a closing fence after it.
HasFencedBlock(t) == \E i, j \in FenceStarts(t) : j >= i + 3

\* What lies between the fences of the first fenced block of t.
FirstBlock(t) ==
  LET i == Least({a \in FenceStarts(t) : \E b \in FenceStarts(t) : b >= a + 3})
      j == Least({b \in FenceStarts(t) : b >= i + 3})
  IN  SubSeq(t, i + 3, j - 1)

\* The substring of u from its first opening to its last closing brace, <<>>
\* when no closing brace follows the first opening brace.
Span(u) ==
  LET opens == {a \in 1..Len(u) : u[a] = "{"}
      closes == {b \in 1..Len(u) : u[b] = "}"}
  IN  IF \E a \in opens, b \in closes : a < b
      THEN SubSeq(u, Least(opens), Greatest(closes)) ELSE <<>>

\* The candidate of the text t, chosen in two stages.
TwoStage(t) == Span(IF HasFencedBlock(t) THEN FirstBlock(t) ELSE t)

\* C19: the candidate is chosen in two stages: within the content of the
\* first fenced block when the text has one, else within the whole text, it is
\* the substring from the first opening brace to the last closing brace; the
\* extractor decodes that candidate and no other, so an object outside a
\* fenced block that is present is never emitted.
C19_CandidateInTwoStages ==
  Parsed
    => LET c == TwoStage(fx[ParsedString].x)
       IN  /\ c = <<>> => ~Did("jsonMatch")
           /\ c # <<>> => \E i \in DOMAIN fx : fx[i] = E("jsonMatch", NoSocket, 0, "", c)
           /\ \A i \in DOMAIN fx : fx[i].t = "report" => fx[i - 1].t = "jsonMatch"

\* An empty fenced block followed by a report object: nothing was emitted.
C19_Witness ==
  /\ Parsed
  /\ fx[ParsedString].x = FenceJson \o SpaceFence \o Obj("report+ts")
  /\ Did("log") /\ ~Did("report")

\* The kind of fan-out an event effect starts, and what it hands to the callbacks.
KindOf(e) == CASE e.t = "status" -> "status" [] e.t = "text" -> "message" [] OTHER -> "report"
Payload(e) == IF e.t = "status" THEN <<e.v>> ELSE e.x
IsEvent(e) == e.t \in {"status", "text", "report"}

\* Every status transition, text fragment and report of the handler that ran
\* is followed at once by a fan-out of its kind; every fan-out calls the
\* callbacks that were registered when it began, each once, in registration
\* order, with the event, and nobody else.
FanOut(es) ==
  \A i \in DOMAIN es :
    /\ IsEvent(es[i])
         => i < Len(es) /\ es[i + 1].t = "forEach" /\ es[i + 1].v = KindOf(es[i])
    /\ es[i].t = "forEach"
         => LET hs == es[i].x
            IN  /\ i > 1 /\ IsEvent(es[i - 1])
                /\ i + Len(hs) <= Len(es)
                /\ \A k \in 1..Len(hs) :
                     es[i + k] = E("call", NoSocket, k, hs[k], Payload(es[i - 1]))
                /\ i + Len(hs) < Len(es) => es[i + Len(hs) + 1].t # "call"

\* The registry of a kind when the handler began.
RegistryOf(kind) ==
  CASE kind = "status" -> statusHandlers
    [] kind = "message" -> messageHandlers
    [] OTHER -> defectHandlers

\* The first fan-out of each kind in the effects es is over the registry as it
\* was when the handler began, and each later one over the registry as the
\* fan-out of that kind before it left it.
FromRegistry(es) ==
  \A j \in DOMAIN es :
    es[j].t = "forEach"
      => LET before == {i \in 1..(j - 1) : es[i].t = "forEach" /\ es[i].v = es[j].v}
         IN  IF before = {} THEN es[j].x = RegistryOf(es[j].v)
             ELSE LET i == Greatest(before)
                  IN  es[j].x = forEach(es[i].x, es[i].v, Payload(es[i - 1])).hs

\* getStatus() is the status broadcast last.
StatusIsLastBroadcast(es) ==
  LET sts == {i \in DOMAIN es : es[i].t = "status"}
  IN  getStatus' = IF sts = {} THEN getStatus ELSE es[Greatest(sts)].v

Unsubs == {"unsubStatus", "unsubMessage", "unsubDefect"}
KindOfUnsub(name) ==
  CASE name = "unsubStatus" -> "status" [] name = "unsubMessage" -> "message" [] OTHER -> "report"

\* The registry of a kind when the handler has ended.
RegistryAfter(kind) ==
  CASE kind = "status" -> statusHandlers'
    [] kind = "message" -> messageHandlers'
    [] OTHER -> defectHandlers'

\* The call of an unregister capability leaves its callback unregistered,
\* whatever the number of times it was registered; a call for a callback that
\* is not registered (a second call) changes nothing; no call notifies anybody
\* or throws, and none touches the session or the other registries.
UnregisterIsIdempotent ==
  op'.name \in Unsubs =>
    LET cb == op'.q[1]
        kind == KindOfUnsub(op'.name)
        before == RegistryOf(kind)
        after == RegistryAfter(kind)
    IN  /\ ~Registered(after, cb)
        /\ ~Registered(before, cb) => after = before
        /\ \A h \in Callbacks \ {cb} :
             SelectSeq(after, LAMBDA g : g = h) = SelectSeq(before, LAMBDA g : g = h)
        /\ fx' = <<>>
        /\ UNCHANGED session
        /\ \A k \in {"status", "message", "report"} \ {kind} : RegistryAfter(k) = RegistryOf(k)

\* Every callback a handler calls was registered with the registry of that
\* kind when the handler began, or was registered since by a callback that was.
OnlyRegisteredAreCalled ==
  \A i \in DOMAIN fx' :
    fx'[i].t = "call" =>
      LET reg == RegistryOf(fx'[i - fx'[i].n].v)
      IN  \/ Registered(reg, fx'[i].v)
          \/ fx'[i].v = "f" /\ Registered(reg, "adder")

WithUnregister(es) ==
  {j \in DOMAIN es : es[j].t = "forEach" /\ Registered(es[j].x, "once")}

\* C22: unregistering a subscription while an event of its kind is being
\* dispatched does not change the pass that is running: every callback that
\* was registered when the pass began still receives the event, those after
\* the one that unregistered and the other registrations of that one included;
\* the one that unregistered is in the registry no more, for no later pass.
C22_UnregisterDuringDispatch ==
  [][\A j \in WithUnregister(fx') :
       LET hs == fx'[j].x
       IN  /\ j + Len(hs) <= Len(fx')
           /\ \A k \in 1..Len(hs) :
                /\ fx'[j + k].t = "call" /\ fx'[j + k].v = hs[k]
                /\ fx'[j + k].x = Payload(fx'[j - 1])
           /\ ~Registered(RegistryAfter(fx'[j].v), "once")
           /\ \A i \in (j + 1)..Len(fx') :
                (fx'[i].t = "forEach" /\ fx'[i].v = fx'[j].v) => ~Registered(fx'[i].x, "once")]_vars

\* A text fragment went to a callback that unregistered itself, registered
\* twice: its second registration, gone when its turn came, was still called.
C22_Witness ==
  /\ \E j \in DOMAIN fx :
       /\ fx[j] = E("forEach", NoSocket, 2, "message", <<"once", "once">>)
       /\ Len(fx) >= j + 2 /\ fx[j + 2].t = "call" /\ fx[j + 2].v = "once"
  /\ messageHandlers = <<>>

\* The frame handleMessage just handled was of one of these kinds.
Handled(kinds) == op.name = "handleMessage" /\ \E k \in kinds : op.q = <<[kind |-> k]>>
NoContent == {"setupComplete", "malformed", "other", "error"}

\* C23: an inbound frame that does not decode, that acknowledges the setup,
\* or that has a shape the adapter does not know, notifies no subscriber of
\* any kind and leaves the status, the turn buffer and the reconnect counter
\* as they were.
C23_OtherFramesAreIgnored ==
  [][Handled({"malformed", "setupComplete", "other"})'
       => /\ fx' = <<>>
          /\ UNCHANGED <<currentStatus, accumulatedResponse, reconnectAttempts, timers,
                         statusHandlers, messageHandlers, defectHandlers>>]_vars

\* A frame that does not decode arrived in the middle of a turn, with a
\* message subscriber and a report subscriber registered.
C23_Witness ==
  /\ Handled({"malformed"})
  /\ accumulatedResponse # <<>>
  /\ messageHandlers # <<>> /\ defectHandlers # <<>>

\* The texts of the fragments forwarded by the handler that ran, in order.
Forwarded(es) ==
  LET chunks == SelectSeq(es, LAMBDA e : e.t = "text" /\ e.v = "chunk")
  IN  [i \in DOMAIN chunks |-> chunks[i].x]

\* The non-empty text parts of the content frame that was just handled: the
\* fragments the buffer has gained.
Gained ==
  LET now == IF \E i \in DOMAIN fx' : fx'[i].t = "parse" THEN op'.q ELSE received'
  IN  Texts(SubSeq(now, Len(received) + 1, Len(now)))

Sent(c) == c \in DOMAIN captures /\ captures[c].req # 0
Finished(c) == c \in DOMAIN captures /\ captures[c].outcome # "pending"

\* C25: every capture-and-analyze request that was sent finishes in the end:
\* the capture is resolved, with the report or, its own 30 s timer having
\* fired, with the fallback report, and isAnalyzing is false again; for every
\* capture of a sequence, whatever timers of earlier captures are pending.
C25_EveryCaptureFinishes ==
  /\ \A c \in 1..MaxReq : [](Sent(c) => <>(Finished(c) /\ ~isAnalyzing))
  /\ [](\A c \in DOMAIN captures :
          captures[c].outcome = "fallback"
            => /\ \A i \in DOMAIN deadlines : deadlines[i] # c
               /\ sections[captures[c].section].captured
                    => sections[captures[c].section].report.condition_score \in 0..10)

\* C29: a capture is only ever resolved with the report produced for its own
\* request: a report that answers an earlier request is never stored as the
\* result of a later capture.
C29_ReportOfOwnRequest ==
  \A c \in DOMAIN captures : captures[c].outcome = "report" => captures[c].from = captures[c].req

\* C30: the current section index stays within 0..5, for every interleaving
\* of goToSection, resetInspection and the auto-advance of a capture that
\* completes.
C30_SectionIndexInRange == currentSectionIndex \in SectionIndexes

\* The report the component's handler was called with by the handler that ran.
Shown(es) == es[Least(ReportsTo("f", es))].x

\* The history holds at most ten reports, none of them of "Not Detected".
HistoryBounded ==
  /\ Len(inspectionHistory) <= historyLimit
  /\ \A i \in DOMAIN inspectionHistory : inspectionHistory[i].device_type # "Not Detected"

\* A report that was decoded is handed to every report subscriber, the
\* "Not Detected" one like any other; the component shows it, and puts it in
\* front of the history, whose eleventh entry drops out, unless it is the
\* "Not Detected" one, which leaves the history as it is.
SentinelShownNotKept ==
  /\ \A i \in DOMAIN fx' :
       fx'[i].t = "report"
         => /\ fx'[i + 1] = E("forEach", NoSocket, Len(defectHandlers), "report", defectHandlers)
            /\ \A k \in 1..Len(defectHandlers) :
                 fx'[i + 1 + k] = E("call", NoSocket, k, defectHandlers[k], fx'[i].x)
  /\ ReportsTo("f", fx') # {}
       => LET r == Shown(fx')
              n == Len(inspectionHistory)
          IN  /\ currentReport' = r
              /\ IF r.device_type = "Not Detected"
                 THEN inspectionHistory' = inspectionHistory
                 ELSE /\ Len(inspectionHistory') = Min(n + 1, historyLimit)
                      /\ inspectionHistory'[1] = r
                      /\ \A i \in 2..Len(inspectionHistory') :
                           inspectionHistory'[i] = inspectionHistory[i - 1]
  /\ ReportsTo("f", fx') = {} => UNCHANGED panel

\* C26: a decoded report whose device type is "Not Detected" is still
\* delivered to all report subscribers; the continuous inspector shows it as
\* the current report and never adds it to the inspection history, which holds
\* at most the 10 most recent other reports, newest first.
C26_SentinelShownNotKept == []HistoryBounded /\ [][SentinelShownNotKept]_vars

\* With ten reports in the history, a report of a device arrived and pushed the
\* oldest one out; then a "Not Detected" report arrived: it is shown, and the
\* history is as it was.
C26_Witness ==
  /\ op.name = "handleMessage" /\ ReportsTo("f", fx) # {}
  /\ currentReport.device_type = "Not Detected"
  /\ Len(inspectionHistory) = historyLimit
  /\ inspectionHistory[1].timestamp # "earlier"
  /\ inspectionHistory[historyLimit].timestamp = "earlier"

\* C27: the device-info GET handler never fails fatally: when the CLI is
\* unavailable or exits non-zero, in the enumeration step or in the attribute
\* query step, the response says that no device is connected.
C27_FailureMeansNoDevice ==
  op.name = "GET"
    => /\ response # <<>>
       /\ (cli.list = "fail" \/ cli.info = "fail") => ~response.connected

\* C28: getStatus() is "connected" exactly when the current socket of the
\* session is open with its setup payload sent; the close or error event of a
\* socket that was disconnected explicitly, or that a newer socket has
\* replaced, does not change the status of the newer live connection.
C28_StatusTracksCurrentSocket ==
  (currentStatus = "connected") <=> (ws # NoSocket /\ readyState[ws] = "OPEN")

\* A section gets a report only from a capture that was started after the
\* latest reset.
WrittenByFreshCapture ==
  \A i \in SectionIndexes :
    sections'[i].captured /\ (~sections[i].captured \/ sections'[i].report # sections[i].report)
      => \E c \in DOMAIN captures :
           /\ captures[c].section = i
           /\ captures[c].outcome = "pending" /\ captures'[c].outcome # "pending"
           /\ ~captures[c].stale

\* C31: after resetInspection or "Save & Next Phone" every section is
\* uncaptured and has no report, until a capture that is started after the
\* reset completes: the result of an analysis that was in flight when the
\* reset happened is never written into the fresh inspection.
C31_ResetDiscardsInFlight ==
  /\ [](op.name \in {"resetInspection", "handleSaveToBatch"}
         => \A i \in SectionIndexes : sections[i] = NotCaptured)
  /\ [][WrittenByFreshCapture]_vars

\* C32: whenever inspectionComplete is true, all six sections are captured,
\* each with a stored report.
C32_CompleteMeansAllCaptured ==
  inspectionComplete
    => \A i \in SectionIndexes : sections[i].captured /\ sections[i].report # <<>>

\* The call of the unregister capability of a registered callback takes one
\* registration of it out of its registry, and leaves the other registrations
\* of that registry, in their order, and the other two registries.
RemovesExactlyOne ==
  op'.name \in Unsubs /\ Registered(RegistryOf(KindOfUnsub(op'.name)), op'.q[1]) =>
    LET cb == op'.q[1]
        kind == KindOfUnsub(op'.name)
        before == RegistryOf(kind)
        after == RegistryAfter(kind)
    IN  /\ \E i \in DOMAIN before :
             /\ before[i] = cb
             /\ after = SubSeq(before, 1, i - 1) \o SubSeq(before, i + 1, Len(before))
        /\ \A other \in {"status", "message", "report"} \ {kind} :
             RegistryAfter(other) = RegistryOf(other)

\* C33: unregistering one subscription removes exactly that subscription: the
\* other subscriptions of its kind, another registration of the same callback
\* included, and the subscriptions of the other two kinds stay registered, in
\* their order.
C33_UnregisterRemovesExactlyOne == [][RemovesExactlyOne]_vars

\* The frame the handler that ran was given carried the turn-complete flag.
TurnCompleteGiven(o, es) ==
  \/ o.q = <<[kind |-> "content", turnComplete |-> TRUE]>>
  \/ \E i \in DOMAIN es : es[i].t = "parse"

\* When a callback throws, the callbacks registered after it are still called
\* with the same event; and a frame with the turn-complete flag has its
\* buffer handed to the extractor and cleared.
ThrowDoesNotDisturb ==
  op'.name = "handleMessage" =>
    /\ \A i \in DOMAIN fx' :
         fx'[i].t = "throw" =>
           LET at == fx'[i].n
               mark == fx'[i - 1 - at]
           IN  \A k \in (at + 1)..mark.n :
                 \E j \in DOMAIN fx' :
                   j > i /\ fx'[j] = E("call", NoSocket, k, mark.x[k], fx'[i - 1].x)
    /\ TurnCompleteGiven(op', fx')
         => /\ \E i \in DOMAIN fx' : fx'[i].t = "parse"
            /\ accumulatedResponse' = <<>>

\* C34: a subscriber callback that throws does not disturb the rest of the
\* dispatch: the subscribers registered after it still receive the same
\* event, and a turn-complete flag carried by the same frame is still
\* honoured (the buffer is handed to the extractor and cleared).
C34_ThrowDoesNotDisturb == [][ThrowDoesNotDisturb]_vars

\* The handler of an error marker tells every message callback of the
\* registry, once and in its order, "Error: " and then the message of the
\* marker, and does nothing else: the buffer, the registries of the other
\* kinds, the status, the reconnect counter, the sockets and the timers are as
\* they were, and nothing is parsed or reported.
ErrorMarkerOnlyTells ==
  Handled({"error"})' =>
    /\ Len(fx') = 2 + Len(messageHandlers)
    /\ fx'[1].t = "text" /\ fx'[1].x = <<"Error: ", "message">>
    /\ fx'[2] = E("forEach", NoSocket, Len(messageHandlers), "message", messageHandlers)
    /\ \A k \in 1..Len(messageHandlers) :
         fx'[2 + k] = E("call", NoSocket, k, messageHandlers[k], <<"Error: ", "message">>)
    /\ UNCHANGED <<accumulatedResponse, received, currentStatus, reconnectAttempts, ws,
                   readyState, timers, statusHandlers, defectHandlers>>

Exported == fx[1].x

\* C36: the overall condition of the aggregated report follows the grading
\* of its overall score: Excellent for 9-10, Good for 7-8, Fair for 5-6, Poor
\* for 3-4, Damaged for 1-2; a report with no determined section score
\* (overall score 0) is not graded as Damaged.
C36_GradeFollowsScale ==
  op.name \in {"handleExportExcel", "handleSaveToBatch"} =>
    /\ Exported.overallScore \in 9..10 => Exported.overallCondition = "Excellent"
    /\ Exported.overallScore \in 7..8 => Exported.overallCondition = "Good"
    /\ Exported.overallScore \in 5..6 => Exported.overallCondition = "Fair"
    /\ Exported.overallScore \in 3..4 => Exported.overallCondition = "Poor"
    /\ Exported.overallScore \in 1..2 => Exported.overallCondition = "Damaged"
    /\ Exported.overallScore = 0 => Exported.overallCondition # "Damaged"

====
